---- MODULE Spec2Model ----
(***************************************************************************)
(* Model of visp_python_bindgen/header.py (class HeaderFile): the binding  *)
(* generation of one run (generate_binding_code over the units, filling    *)
(* the bindings container) and the header dependency walk                  *)
(* (preprocess, get_header_dependencies).                                  *)
(*                                                                         *)
(* Strings are modelled as sequences of tokens: the class name 'vpB' is    *)
(* <<"vp", "B">>, the C++ name 'vpT<double>' is <<"vp", "T", "double">>,   *)
(* the namespace prefix 'outer::inner::' is                                *)
(* <<"outer", "::", "inner", "::">>, the key '__add__' is                  *)
(* <<"__", "add", "__">>.  Field names are sequences of characters.        *)
(***************************************************************************)
EXTENDS Integers, Sequences, FiniteSets, TLC

VARIABLES
  container,   \* BindingsContainer.object_bindings: the entries, in insertion order
  origin,      \* history: origin[i] is the unit whose generation added container[i]
  report,      \* submodule.report: the diagnostics recorded so far
  unit,        \* number of the unit generate_binding_code is running on (0: none yet)
  phase,       \* position of generate_binding_code inside parse_data
  nsTrees,     \* header_repr.namespace of every unit of the run
  seen,        \* history: the names of the classes generate_class was called on
  processed,   \* history: the generate_class calls: unit, class and configuration
  nsStack,     \* pending parse_sub_namespace calls, innermost first
  last,        \* history: the operation that ran last, with its inputs and outcome
  headers,     \* the HeaderFile objects of the dependency walk
  depConfig,   \* submodule.config['header_additional_dependencies']
  callStack,   \* activation records of get_header_dependencies, innermost first
  depStatus,   \* "idle", "running", "done" or "overflow" (recursion limit hit)
  depResult    \* the outermost get_header_dependencies call: its header and result

vars == <<container, origin, report, unit, phase, nsTrees, seen, processed,
          nsStack, last, headers, depConfig, callStack, depStatus, depResult>>

genVars == <<container, origin, report, unit, phase, nsTrees, seen, processed,
             nsStack, last>>
depVars == <<headers, depConfig, callStack, depStatus, depResult>>

(***************************************************************************)
(* Bounds of the model.                                                    *)
(***************************************************************************)
MaxUnits == 2          \* units of a run
MaxMethods == 2        \* methods declared by the derived class
MaxBaseMethods == 1    \* methods declared by a base class
MaxFields == 2         \* fields declared by a class that has only fields
NumHeaders == 3        \* units given to the dependency walk
RecursionLimit == 5    \* activation records the interpreter allows

None == "None"

\* Python's None where the model holds a record otherwise
NoneRecord == [kind |-> "None"]

(***************************************************************************)
(* Generic helpers.                                                        *)
(***************************************************************************)
Range(s) == {s[i] : i \in DOMAIN s}

Indices(s) == [i \in 1..Len(s) |-> i]

RECURSIVE Concat(_)
Concat(ss) == IF ss = <<>> THEN <<>> ELSE Head(ss) \o Concat(Tail(ss))

MapSeq(s, F(_)) == [i \in 1..Len(s) |-> F(s[i])]

\* The subsequence of s at the positions in S, in the order of s.
SubSeqAt(s, S) == SelectSeq(Indices(s), LAMBDA i : i \in S)

Pick(s, S) == MapSeq(SubSeqAt(s, S), LAMBDA i : s[i])

(***************************************************************************)
(* The declaration tree handed over by the parser, and the configuration.  *)
(*   method: [name, kind ("ctor" | "op" | "plain"), static, pure_virtual,  *)
(*            nparams, admit, mspecs]                                      *)
(*     for an operator, name is the operator token; admit is the verdict   *)
(*     of the admission filter; mspecs lists the method-level template     *)
(*     specializations (<<>>: not a template method, or none configured).  *)
(*   field:  [name, access, type |-> [const, tokens], static]              *)
(*   base:   [typename |-> [name, args], access]                           *)
(*   class:  [name, template, bases, methods, fields, has_repr]            *)
(*     template is the list of formal parameter names (<<>>: no template). *)
(*   config: [ignored, is_virtual, specializations, ignore_repr,           *)
(*            additional_bindings, ignored_attributes, acknowledge,        *)
(*            use_buffer_protocol]                                         *)
(***************************************************************************)
CtorKey == <<"__", "init", "__">>
ReprKey == <<"__", "repr", "__">>
AdditionalKey == <<"__", "additional_bindings">>

\* f'__{python_op_name}__'
OpKey(python_op_name) == <<"__", python_op_name, "__">>

\* The operator tables of the generator, token -> protocol name, in table order.
supported_const_return_unary_op_map == << <<"-", "neg">>, <<"~", "invert">> >>
supported_const_return_binary_op_map ==
  << <<"==", "eq">>, <<"+", "add">>, <<"-", "sub">>, <<"*", "mul">> >>
supported_in_place_binary_op_map == << <<"+=", "iadd">>, <<"-=", "isub">> >>
supported_nary_op_map == << <<"()", "call">> >>

\* for cpp_op, python_op_name in table.items(): if method_name == f'operator{cpp_op}': ...; break
\* The protocol names the loop binds the token under: the first match, or nothing.
RECURSIVE OpTableLoop(_, _)
OpTableLoop(table, tok) ==
  IF table = <<>> THEN <<>>
  ELSE IF Head(table)[1] = tok THEN << Head(table)[2] >>
  ELSE OpTableLoop(Tail(table), tok)

\* Operator loops that do not look at the number of parameters
OperatorKeysAnyArity(m) ==
  OpTableLoop(supported_const_return_unary_op_map, m.name)
  \o OpTableLoop(supported_const_return_binary_op_map, m.name)
  \o OpTableLoop(supported_in_place_binary_op_map, m.name)
  \o OpTableLoop(supported_nary_op_map, m.name)

\* The keys one admitted operator method is bound under, in binding order.
OperatorKeys(m) ==
  IF m.nparams < 1 THEN OpTableLoop(supported_const_return_unary_op_map, m.name)
  ELSE IF m.nparams = 1 THEN
         OpTableLoop(supported_const_return_binary_op_map, m.name)
         \o OpTableLoop(supported_in_place_binary_op_map, m.name)
  ELSE OpTableLoop(supported_nary_op_map, m.name)

\* MethodBinding(binding, is_static, is_lambda, is_operator, is_constructor, method_data).
\* The binding text names the object it is attached to (target), the C++ class
\* whose member it wraps (owner), the member (ix: its position among the owner's
\* methods) and, for a template method, the specialization.
MethodBinding(target, owner, ix, mspec, static, lambda, operator, constructor, py_name) ==
  [binding |-> [target |-> target, owner |-> owner, ix |-> ix, mspec |-> mspec],
   is_static |-> static, is_lambda |-> lambda, is_operator |-> operator,
   is_constructor |-> constructor, py_name |-> py_name]

\* MethodBinding.get_definition_in_child_class(child_py_ident)
get_definition_in_child_class(b, child_py_ident) ==
  [b EXCEPT !.binding.target = child_py_ident]

\* add_to_method_dict(key, value) on the dict d
add_to_method_dict(d, key, value) ==
  IF key \notin DOMAIN d THEN d @@ (key :> <<value>>)
  ELSE [d EXCEPT ![key] = Append(@, value)]

\* The calls add_to_method_dict(kv[1], kv[2]) for kv in kvs, in order.
RECURSIVE AddAll(_, _)
AddAll(d, kvs) ==
  IF kvs = <<>> THEN d
  ELSE AddAll(add_to_method_dict(d, Head(kvs)[1], Head(kvs)[2]), Tail(kvs))

\* get_typename(typename, owner_specs, mapping): the formal parameters among the
\* template arguments are replaced by their specialization.
get_typename(typename, owner_specs) ==
  typename.name \o [i \in 1..Len(typename.args) |->
                     IF typename.args[i] \in DOMAIN owner_specs
                     THEN owner_specs[typename.args[i]] ELSE typename.args[i]]

\* name_cpp_no_template.replace('vp', '')
name_python_of(name_cpp_no_template) ==
  SelectSeq(name_cpp_no_template, LAMBDA t : t # "vp")

\* f'py{name_python}'
python_ident_of(name_python) == <<"py">> \o name_python

\* BindingsContainer.find_bindings(cpp_name): the first entry of that C++ name.
find_bindings(cont, cpp_name) ==
  LET hits == SelectSeq(cont, LAMBDA e : e.names.cpp_name = cpp_name)
  IN IF hits = <<>> THEN NoneRecord ELSE Head(hits)

\* BindingsContainer.add_bindings(other)
add_bindings(cont, other) == Append(cont, other)

\* get_static_and_instance_overloads(generated_methods): the python names bound
\* both by a static and by an instance method.
get_static_and_instance_overloads(generated_methods) ==
  {g.py_name : g \in {x \in Range(generated_methods) : x.static}}
  \cap {g.py_name : g \in {x \in Range(generated_methods) : ~x.static}}

\* is_unsupported_argument_type(field.type): pointer and reference types.
is_unsupported_argument_type(type) ==
  "*" \in Range(type.tokens) \/ "&" \in Range(type.tokens)

\* str.lstrip(chars): drop every leading character that is in chars.
RECURSIVE lstrip(_, _)
lstrip(name, chars) ==
  IF name # <<>> /\ Head(name) \in chars THEN lstrip(Tail(name), chars) ELSE name

(***************************************************************************)
(* generate_class_with_potiental_specialization(name_python, owner_specs,  *)
(* cls_config), for the class cls against the container cont.              *)
(***************************************************************************)
\* A name_cpp that leaves the template arguments out
name_cpp_ofNoArguments(cls, owner_specs) ==
  get_typename([name |-> cls.name, args |-> <<>>], owner_specs)

\* name_cpp: the class name plus '<' owner_specs[t.name] for t in template.params '>'
name_cpp_of(cls, owner_specs) ==
  get_typename([name |-> cls.name, args |-> <<>>], owner_specs)
  \o [i \in 1..Len(cls.template) |-> owner_specs[cls.template[i]]]

\* base_class_strs: the names of the public bases
base_class_strs_of(cls, owner_specs) ==
  MapSeq(SelectSeq(cls.bases, LAMBDA b : b.access = "public"),
         LAMBDA b : get_typename(b.typename, owner_specs))

\* contains_pure_virtual_methods, after the configuration's is_virtual
contains_pure_virtual_methods(cls, cls_config) ==
  (\E i \in 1..Len(cls.methods) : cls.methods[i].pure_virtual) \/ cls_config.is_virtual

\* get_bindable_methods_with_config: positions of the admitted and rejected methods
bindable_methods(cls) == SelectSeq(Indices(cls.methods), LAMBDA i : cls.methods[i].admit)
rejected_methods(cls) == SelectSeq(Indices(cls.methods), LAMBDA i : ~cls.methods[i].admit)

\* split_methods_with_config, twice: constructors, operators, basic methods
constructors_of(cls) ==
  SelectSeq(bindable_methods(cls), LAMBDA i : cls.methods[i].kind = "ctor")
operators_of(cls) ==
  SelectSeq(bindable_methods(cls), LAMBDA i : cls.methods[i].kind = "op")
basic_methods_of(cls) ==
  SelectSeq(bindable_methods(cls), LAMBDA i : cls.methods[i].kind = "plain")

\* Constructor definitions that do not look at contains_pure_virtual_methods
ConstructorDefsAlways(cls, cls_config, python_ident, name_cpp) ==
  MapSeq(constructors_of(cls), LAMBDA i :
    << CtorKey, MethodBinding(python_ident, name_cpp, i, <<>>, FALSE, FALSE, FALSE, TRUE, <<>>) >>)

\* Constructors definitions: the add_to_method_dict calls of the loop
ConstructorDefs(cls, cls_config, python_ident, name_cpp) ==
  IF ~contains_pure_virtual_methods(cls, cls_config)
  THEN MapSeq(constructors_of(cls), LAMBDA i :
         << CtorKey, MethodBinding(python_ident, name_cpp, i, <<>>, FALSE, FALSE, FALSE, TRUE, <<>>) >>)
  ELSE <<>>

\* Operator definitions
OperatorDefs(cls, python_ident, name_cpp) ==
  Concat(MapSeq(operators_of(cls), LAMBDA i :
    MapSeq(OperatorKeys(cls.methods[i]), LAMBDA python_op_name :
      << OpKey(python_op_name),
         MethodBinding(python_ident, name_cpp, i, <<>>, FALSE, TRUE, TRUE, FALSE, <<>>) >>)))

\* define_method(...)[1].py_name: the python name of a basic method
py_name_of(m) == << m.name >>

\* f'{name_cpp}::*' not in method_str: static methods are not bound through a
\* member pointer
is_lambda_of(m) == m.static

\* Define classical methods: one binding per method, or one per method-level
\* specialization of a template method
BasicMethodDefs(cls, python_ident, name_cpp) ==
  Concat(MapSeq(basic_methods_of(cls), LAMBDA i :
    LET m == cls.methods[i]
    IN IF m.mspecs # <<>>
       THEN MapSeq(m.mspecs, LAMBDA method_spec :
              << py_name_of(m),
                 MethodBinding(python_ident, name_cpp, i, method_spec, m.static,
                               is_lambda_of(m), FALSE, FALSE, py_name_of(m)) >>)
       ELSE << << py_name_of(m),
                  MethodBinding(python_ident, name_cpp, i, <<>>, m.static,
                                is_lambda_of(m), FALSE, FALSE, py_name_of(m)) >> >>))

\* generated_methods: the method data of the basic method bindings
generated_methods_of(cls) ==
  Concat(MapSeq(basic_methods_of(cls), LAMBDA i :
    LET m == cls.methods[i]
        data == [py_name |-> py_name_of(m), static |-> m.static]
    IN IF m.mspecs # <<>> THEN MapSeq(m.mspecs, LAMBDA method_spec : data)
       ELSE << data >>))

\* base_bindings: the container's entries of the public bases that have one
base_bindings_of(cls, owner_specs, cont) ==
  SelectSeq(MapSeq(base_class_strs_of(cls, owner_specs), LAMBDA s : find_bindings(cont, s)),
            LAMBDA b : b.kind # "None")

\* A loop that takes over the bindings of the bases under every key they have
RECURSIVE ShadowLoopAllKeys(_, _, _)
ShadowLoopAllKeys(methods_dict, base_bindings, python_ident) ==
  IF base_bindings = <<>> THEN methods_dict
  ELSE LET base_methods_dict == Head(base_bindings).methods
           keys == (DOMAIN methods_dict \cup DOMAIN base_methods_dict)
           updated ==
             [method_name \in keys |->
                (IF method_name \in DOMAIN methods_dict
                 THEN methods_dict[method_name] ELSE <<>>)
                \o (IF method_name \in DOMAIN base_methods_dict
                    THEN MapSeq(base_methods_dict[method_name], LAMBDA parent_method_binding :
                           get_definition_in_child_class(parent_method_binding, python_ident))
                    ELSE <<>>)]
       IN ShadowLoopAllKeys(updated, Tail(base_bindings), python_ident)

\* A loop that puts the bindings of the bases before the class's own ones
RECURSIVE ShadowLoopBaseFirst(_, _, _)
ShadowLoopBaseFirst(methods_dict, base_bindings, python_ident) ==
  IF base_bindings = <<>> THEN methods_dict
  ELSE LET base_methods_dict == Head(base_bindings).methods
           updated ==
             [method_name \in DOMAIN methods_dict |->
                IF method_name # CtorKey /\ method_name \in DOMAIN base_methods_dict
                THEN MapSeq(base_methods_dict[method_name], LAMBDA parent_method_binding :
                       get_definition_in_child_class(parent_method_binding, python_ident))
                     \o methods_dict[method_name]
                ELSE methods_dict[method_name]]
       IN ShadowLoopBaseFirst(updated, Tail(base_bindings), python_ident)

\* The shadowed-overload loop: under every key of methods_dict but the
\* constructor key that a base also has, the base's bindings are appended,
\* redefined in the child class.
RECURSIVE ShadowLoop(_, _, _)
ShadowLoop(methods_dict, base_bindings, python_ident) ==
  IF base_bindings = <<>> THEN methods_dict
  ELSE LET base_methods_dict == Head(base_bindings).methods
           updated ==
             [method_name \in DOMAIN methods_dict |->
                IF method_name # CtorKey /\ method_name \in DOMAIN base_methods_dict
                THEN methods_dict[method_name]
                     \o MapSeq(base_methods_dict[method_name], LAMBDA parent_method_binding :
                          get_definition_in_child_class(parent_method_binding, python_ident))
                ELSE methods_dict[method_name]]
       IN ShadowLoop(updated, Tail(base_bindings), python_ident)

\* The field loop: field_dict[field_name_python] = field_str
RECURSIVE FieldLoop(_, _, _, _, _)
FieldLoop(field_dict, fields, cls_config, python_ident, name_cpp) ==
  IF fields = <<>> THEN field_dict
  ELSE LET field == Head(fields)
           field_name_python == lstrip(field.name, {"m", "_"})
           field_str == [target |-> python_ident,
                         def |-> IF field.type.const THEN "readonly" ELSE "readwrite",
                         static |-> field.static,
                         py_name |-> field_name_python,
                         member |-> <<name_cpp, field.name>>]
           bound == /\ field.name \notin cls_config.ignored_attributes
                    /\ field.access = "public"
                    /\ ~is_unsupported_argument_type(field.type)
           next == IF ~bound THEN field_dict
                   ELSE IF field_name_python \in DOMAIN field_dict
                   THEN [field_dict EXCEPT ![field_name_python] = field_str]
                   ELSE field_dict @@ (field_name_python :> field_str)
       IN FieldLoop(next, Tail(fields), cls_config, python_ident, name_cpp)

\* The to-string definition and the call of the user defined bindings function
WithRepr(methods_dict, cls, cls_config, python_ident, name_cpp) ==
  IF ~cls_config.ignore_repr /\ cls.has_repr
  THEN add_to_method_dict(methods_dict, ReprKey,
         MethodBinding(python_ident, name_cpp, 0, <<>>, FALSE, TRUE, TRUE, FALSE, <<>>))
  ELSE methods_dict

WithAdditionalBindings(methods_dict, cls_config, python_ident) ==
  IF cls_config.additional_bindings # None
  THEN add_to_method_dict(methods_dict, AdditionalKey,
         MethodBinding(python_ident, cls_config.additional_bindings, 0, <<>>,
                       FALSE, FALSE, FALSE, FALSE, <<>>))
  ELSE methods_dict

\* methods_dict at the end of the function: constructors, operators, basic
\* methods, the shadowed overloads of the bases, __repr__, additional bindings
methods_dict_of(cls, cls_config, python_ident, name_cpp, base_bindings) ==
  WithAdditionalBindings(
    WithRepr(
      ShadowLoop(
        AddAll(<<>>, ConstructorDefs(cls, cls_config, python_ident, name_cpp)
                     \o OperatorDefs(cls, python_ident, name_cpp)
                     \o BasicMethodDefs(cls, python_ident, name_cpp)),
        base_bindings, python_ident),
      cls, cls_config, python_ident, name_cpp),
    cls_config, python_ident)

\* class_decl: the py::class_ declaration
class_decl_of(cls_config, name_python, python_ident, name_cpp, base_class_strs) ==
  [python_ident |-> python_ident,
   py_class_template |-> <<name_cpp>> \o base_class_strs,
   name_python |-> name_python,
   buffer_protocol |-> cls_config.use_buffer_protocol]

\* The function up to its last statement, given its first local variables.
\* Result: ok (FALSE: an exception is raised before the last statement), the
\* SingleObjectBindings built, and the methods reported as not generated.
BuildWith(cls, cls_config, name_python, python_ident, name_cpp, base_class_strs, base_bindings) ==
  [ok |-> /\ \A i \in 1..Len(base_bindings) : base_bindings[i].kind = "Class"
          /\ get_static_and_instance_overloads(generated_methods_of(cls)) = {},
   entry |-> [kind |-> "Class",
              names |-> [python_ident |-> python_ident, python_name |-> name_python,
                         cpp_no_template_name |-> cls.name, cpp_name |-> name_cpp],
              decl |-> class_decl_of(cls_config, name_python, python_ident, name_cpp,
                                     base_class_strs),
              fields |-> FieldLoop(<<>>, cls.fields, cls_config, python_ident, name_cpp),
              methods |-> methods_dict_of(cls, cls_config, python_ident, name_cpp,
                                          base_bindings),
              defs |-> <<>>],
   rejected |-> MapSeq(rejected_methods(cls), LAMBDA i :
                  [what |-> "method", owner |-> cls.name, ix |-> i])]

BuildSpecialization(cls, cls_config, name_python, owner_specs, cont) ==
  BuildWith(cls, cls_config, name_python, python_ident_of(name_python),
            name_cpp_of(cls, owner_specs), base_class_strs_of(cls, owner_specs),
            base_bindings_of(cls, owner_specs, cont))

\* A last statement that runs whether or not an exception was raised
AddBuiltAlways(b, cont) ==
  [ok |-> b.ok, container |-> add_bindings(cont, b.entry), rejected |-> b.rejected]

\* A last statement that also writes the new bindings into the entries of the bases
AddBuiltIntoBase(b, cont) ==
  [ok |-> b.ok,
   container |->
     IF b.ok
     THEN add_bindings(
            [i \in 1..Len(cont) |->
               IF cont[i].names.cpp_name \in Range(Tail(b.entry.decl.py_class_template))
               THEN [cont[i] EXCEPT !.methods =
                       [k \in DOMAIN @ |->
                          IF k \in DOMAIN b.entry.methods THEN b.entry.methods[k] ELSE @[k]]]
               ELSE cont[i]],
            b.entry)
     ELSE cont,
   rejected |-> b.rejected]

\* The last statement, add_bindings, runs unless an exception was raised.
\* Result: ok, the container and the rejected methods.
AddBuilt(b, cont) ==
  [ok |-> b.ok,
   container |-> IF b.ok THEN add_bindings(cont, b.entry) ELSE cont,
   rejected |-> b.rejected]

\* The whole function
GenerateSpecialization(cls, cls_config, name_python, owner_specs, cont) ==
  AddBuilt(BuildSpecialization(cls, cls_config, name_python, owner_specs, cont), cont)

(***************************************************************************)
(* generate_class(bindings_container, cls, header_env)                     *)
(***************************************************************************)
\* spec_dict = OrderedDict(k for k in zip(template_names, args))
spec_dict_of(template_names, args) ==
  [t \in Range(template_names) |->
     args[CHOOSE i \in 1..Len(template_names) : template_names[i] = t]]

\* refs_or_ptr_fields: the type strings of the fields that hold '&' or '*'
refs_or_ptr_fields_of(cls) ==
  SelectSeq(MapSeq(cls.fields, LAMBDA field : field.type.tokens),
            LAMBDA tn : "&" \in Range(tn) \/ "*" \in Range(tn))

\* A warning that looks for the names of the fields among the acknowledged
pointer_reportByName(cls, cls_config, rep) ==
  IF \E i \in DOMAIN cls.fields :
       /\ ("&" \in Range(cls.fields[i].type.tokens) \/ "*" \in Range(cls.fields[i].type.tokens))
       /\ cls.fields[i].name \notin cls_config.acknowledge
  THEN Append(rep, [what |-> "pointer_or_ref_holder", owner |-> cls.name,
                    fields |-> refs_or_ptr_fields_of(cls)])
  ELSE rep

\* The report after the warning for potential double frees
pointer_report(cls, cls_config, rep) ==
  IF Range(refs_or_ptr_fields_of(cls)) \ cls_config.acknowledge # {}
  THEN Append(rep, [what |-> "pointer_or_ref_holder", owner |-> cls.name,
                    fields |-> refs_or_ptr_fields_of(cls)])
  ELSE rep

\* The loop over the configured specializations, from position i on; r is the
\* result of the specialization at position i.
\* Result: the outcome ("ok" | "fatal"), the container and the report.
RECURSIVE SpecializationLoop(_, _, _, _, _)

\* A loop that ends after its first specialization
AfterSpecializationStop(cls, cls_config, i, rep, r) ==
  [outcome |-> IF r.ok THEN "ok" ELSE "fatal", container |-> r.container,
   report |-> rep \o r.rejected]

\* After the specialization at position i: an exception ends the loop
AfterSpecialization(cls, cls_config, i, rep, r) ==
  IF ~r.ok
  THEN [outcome |-> "fatal", container |-> r.container, report |-> rep \o r.rejected]
  ELSE SpecializationLoop(cls, cls_config, i + 1, r.container, rep \o r.rejected)

SpecializationLoop(cls, cls_config, i, cont, rep) ==
  IF i > Len(cls_config.specializations)
  THEN [outcome |-> "ok", container |-> cont, report |-> rep]
  ELSE IF Len(cls.template) # Len(cls_config.specializations[i].arguments)
  THEN [outcome |-> "fatal", container |-> cont, report |-> rep]
  ELSE AfterSpecialization(cls, cls_config, i, rep,
         GenerateSpecialization(cls, cls_config, cls_config.specializations[i].python_name,
                                spec_dict_of(cls.template,
                                             cls_config.specializations[i].arguments),
                                cont))

\* The class without template: one call, with the class name without 'vp'
NonTemplateResult(r, rep) ==
  [outcome |-> IF r.ok THEN "ok" ELSE "fatal", container |-> r.container,
   report |-> rep \o r.rejected]

\* The function after the warning for potential double frees
generate_class_body(cls, cls_config, cont, rep) ==
  IF cls.template = <<>>
  THEN NonTemplateResult(
         GenerateSpecialization(cls, cls_config, name_python_of(cls.name), <<>>, cont), rep)
  ELSE IF cls_config.specializations = <<>>
  THEN [outcome |-> "skipped", container |-> cont,
        report |-> Append(rep, [what |-> "class", owner |-> cls.name])]
  ELSE SpecializationLoop(cls, cls_config, 1, cont, rep)

\* Result: the outcome ("ignored" | "skipped" | "ok" | "fatal"), the container
\* and the report after the call.
generate_class(cls, cls_config, cont, rep) ==
  IF cls_config.ignored
  THEN [outcome |-> "ignored", container |-> cont, report |-> rep]
  ELSE generate_class_body(cls, cls_config, cont, pointer_report(cls, cls_config, rep))

(***************************************************************************)
(* parse_sub_namespace(bindings_container, ns, namespace_prefix, is_root), *)
(* without the recursive calls, which the stack of pending calls holds.    *)
(*   namespace: [name, functions, namespaces]; function: [name, admit]     *)
(***************************************************************************)
\* A walk that skips no namespace
ns_skippedNever(frame) == FALSE

\* Anonymous namespace below the root: the call returns at once
ns_skipped(frame) == ~frame.is_root /\ frame.ns.name = ""

\* namespace_prefix + sub_ns + '::'
sub_prefix(namespace_prefix, sub_ns) == namespace_prefix \o <<sub_ns, "::">>

\* SingleObjectBindings(bound_object, None, defs, GenerationObjectType.Namespace)
namespace_bindings(frame) ==
  LET bound_object == [python_ident |-> <<"submodule">>, python_name |-> <<"submodule">>,
                       cpp_no_template_name |-> frame.prefix, cpp_name |-> frame.prefix]
      admitted == SelectSeq(frame.ns.functions, LAMBDA f : f.admit)
  IN [kind |-> "Namespace", names |-> bound_object, decl |-> NoneRecord, fields |-> <<>>,
      methods |-> <<>>,
      defs |-> MapSeq(admitted, LAMBDA f : [target |-> bound_object, fn |-> f.name])]

namespace_rejections(frame) ==
  MapSeq(SelectSeq(frame.ns.functions, LAMBDA f : ~f.admit),
         LAMBDA f : [what |-> "function", owner |-> frame.prefix, fn |-> f.name])

\* The recursive calls of the body, in order
sub_calls(frame) ==
  MapSeq(frame.ns.namespaces, LAMBDA sub :
    [ns |-> sub, prefix |-> sub_prefix(frame.prefix, sub.name), is_root |-> FALSE])

(***************************************************************************)
(* The inputs of a run: the declarations and configurations the actions    *)
(* draw from.                                                              *)
(***************************************************************************)
Method(name, kind, static, pure_virtual, nparams, admit, mspecs) ==
  [name |-> name, kind |-> kind, static |-> static, pure_virtual |-> pure_virtual,
   nparams |-> nparams, admit |-> admit, mspecs |-> mspecs]

\* The methods a base class may declare
BaseMethodUniverse ==
  << Method("ctor", "ctor", FALSE, FALSE, 0, TRUE, <<>>),
     Method("foo", "plain", FALSE, FALSE, 1, TRUE, <<>>),
     Method("foo", "plain", TRUE, FALSE, 0, TRUE, <<>>),
     Method("+", "op", FALSE, FALSE, 1, TRUE, <<>>) >>

\* The methods a derived class may declare
MethodUniverse ==
  << Method("ctor", "ctor", FALSE, FALSE, 1, TRUE, <<>>),
     Method("foo", "plain", FALSE, FALSE, 2, TRUE, <<>>),
     Method("foo", "plain", TRUE, FALSE, 0, TRUE, <<>>),
     Method("foo", "plain", TRUE, FALSE, 3, FALSE, <<>>),
     Method("bar", "plain", FALSE, TRUE, 0, TRUE, <<>>),
     Method("conv", "plain", FALSE, FALSE, 1, TRUE, << <<"int">>, <<"double">> >>),
     Method("+", "op", FALSE, FALSE, 1, TRUE, <<>>),
     Method("+=", "op", FALSE, FALSE, 1, TRUE, <<>>),
     Method("-", "op", FALSE, FALSE, 0, TRUE, <<>>),
     Method("()", "op", FALSE, FALSE, 2, TRUE, <<>>),
     Method("[]", "op", FALSE, FALSE, 1, TRUE, <<>>) >>

\* The lists of at most n methods of a universe, in the order of the universe
MethodLists(universe, n) ==
  {Pick(universe, S) : S \in {T \in SUBSET (1..Len(universe)) : Cardinality(T) <= n}}

Field(name, access, const, tokens, static) ==
  [name |-> name, access |-> access, type |-> [const |-> const, tokens |-> tokens],
   static |-> static]

DerivedFields ==
  << Field(<<"m", "_", "x">>, "public", FALSE, <<"float">>, FALSE),
     Field(<<"p">>, "public", FALSE, <<"int", "*">>, FALSE) >>

\* The fields a class that has only fields may declare
FieldUniverse ==
  << Field(<<"m", "_", "x">>, "public", FALSE, <<"float">>, FALSE),
     Field(<<"x">>, "public", TRUE, <<"float">>, TRUE),
     Field(<<"p">>, "public", FALSE, <<"int", "*">>, FALSE),
     Field(<<"q">>, "private", FALSE, <<"int", "*">>, FALSE),
     Field(<<"r">>, "public", FALSE, <<"double", "&">>, FALSE),
     Field(<<"s">>, "private", FALSE, <<"float">>, FALSE) >>

\* The lists of at most MaxFields fields, in the order of the universe
FieldLists ==
  {Pick(FieldUniverse, S) : S \in {T \in SUBSET (1..Len(FieldUniverse)) : Cardinality(T) <= MaxFields}}

Base(name, args, access) == [typename |-> [name |-> name, args |-> args], access |-> access]

BaseName == <<"vp", "B">>
DerivedName == <<"vp", "D">>
GenericName == <<"vp", "G">>

Class(name, template, bases, methods, fields, has_repr) ==
  [name |-> name, template |-> template, bases |-> bases, methods |-> methods,
   fields |-> fields, has_repr |-> has_repr]

\* The base class
BaseClassDecls ==
  { Class(BaseName, <<>>, <<>>, methods, <<>>, FALSE) :
      methods \in MethodLists(BaseMethodUniverse, MaxBaseMethods) }

\* The derived class: no base, a public or a private base, or a template over T
\* with two public bases, the second one a template over the same argument
DerivedClassDecls ==
  { Class(DerivedName, shape[1], shape[2], methods, DerivedFields, TRUE) :
      shape \in { << <<>>, <<>> >>,
                  << <<>>, << Base(BaseName, <<>>, "public") >> >>,
                  << <<>>, << Base(BaseName, <<>>, "private") >> >>,
                  << <<"T">>, << Base(BaseName, <<>>, "public"),
                                 Base(GenericName, <<"T">>, "public") >> >> },
      methods \in MethodLists(MethodUniverse, MaxMethods) }
  \cup { Class(DerivedName, <<>>, <<>>, <<>>, fields, FALSE) : fields \in FieldLists }

Specialization(python_name, arguments) ==
  [python_name |-> python_name, arguments |-> arguments]

SpecializationLists ==
  { <<>>,
    << Specialization(<<"Dd">>, <<"double">>) >>,
    << Specialization(<<"Dd">>, <<"double">>), Specialization(<<"Di">>, <<"int">>) >>,
    << Specialization(<<"Dd">>, <<"double">>), Specialization(<<"Dii">>, <<"int", "int">>) >> }

Config(ignored, is_virtual, specializations, ignore_repr, additional_bindings) ==
  [ignored |-> ignored, is_virtual |-> is_virtual, specializations |-> specializations,
   ignore_repr |-> ignore_repr, additional_bindings |-> additional_bindings,
   ignored_attributes |-> {}, acknowledge |-> {}, use_buffer_protocol |-> FALSE]

\* The configurations of a class that has only fields: the entries of
\* ignored_attributes are field names, those of
\* acknowledge_pointer_or_ref_fields are field names or type strings
FieldConfigs ==
  { [Config(FALSE, is_virtual, <<>>, FALSE, None)
       EXCEPT !.ignored_attributes = ignored_attributes, !.acknowledge = acknowledge] :
      is_virtual \in BOOLEAN,
      ignored_attributes \in { {}, {<<"m", "_", "x">>} },
      acknowledge \in { {}, {<<"p">>}, {<<"int", "*">>} } }

\* The configurations a class may come with
Configs(cls) ==
  IF cls.name = BaseName
  THEN { Config(FALSE, FALSE, <<>>, FALSE, None), Config(TRUE, FALSE, <<>>, FALSE, None) }
  ELSE IF cls.template = <<>> /\ cls.methods = <<>> /\ cls.bases = <<>>
  THEN FieldConfigs
  ELSE IF cls.template = <<>>
  THEN { Config(FALSE, FALSE, <<>>, FALSE, None),
         Config(FALSE, TRUE, <<>>, TRUE, "hook") }
  ELSE { Config(FALSE, FALSE, specializations, FALSE, None) :
           specializations \in SpecializationLists }
       \cup { Config(FALSE, TRUE, << Specialization(<<"Dd">>, <<"double">>),
                                    Specialization(<<"Di">>, <<"int">>) >>, FALSE, None) }

Function(name, admit) == [name |-> name, admit |-> admit]

Namespace(name, functions, namespaces) ==
  [name |-> name, functions |-> functions, namespaces |-> namespaces]

\* The root namespaces a unit may have.  Every function name says where the
\* function is declared.
NamespaceTrees ==
  { Namespace("", << Function("f", TRUE) >>, <<>>),
    Namespace("", << Function("f_root", TRUE) >>,
      << Namespace("outer", << Function("f_outer", TRUE), Function("r_outer", FALSE) >>,
           << Namespace("inner", << Function("f_outer_inner", TRUE) >>, <<>>) >>) >>),
    Namespace("", <<>>,
      << Namespace("", << Function("f_anon", TRUE) >>,
           << Namespace("deep", << Function("f_anon_deep", TRUE) >>, <<>>) >>),
         Namespace("outer", << Function("g_outer", TRUE) >>,
           << Namespace("", << Function("f_outer_anon", TRUE) >>, <<>>),
              Namespace("inner", << Function("g_outer_inner", TRUE) >>, <<>>) >>) >>) }

\* The classes the units of a run declare: the derived class comes only with
\* units that keep their functions in the root namespace
ClassDecls(trees) ==
  IF \A u \in DOMAIN trees : trees[u].namespaces = <<>>
  THEN BaseClassDecls \cup DerivedClassDecls
  ELSE BaseClassDecls

(***************************************************************************)
(* The generation run.                                                     *)
(***************************************************************************)
InitGen ==
  /\ container = <<>>
  /\ origin = <<>>
  /\ report = <<>>
  /\ unit = 0
  /\ phase = "idle"
  /\ nsTrees \in [1..MaxUnits -> NamespaceTrees]
  /\ seen = {}
  /\ processed = {}
  /\ nsStack = <<>>
  /\ last = [op |-> "none"]

InitDepIdle ==
  /\ headers = <<>>
  /\ depConfig = <<>>
  /\ callStack = <<>>
  /\ depStatus = "idle"
  /\ depResult = [self |-> 0, value |-> <<>>]

Init == InitGen /\ InitDepIdle

\* generate_binding_code(bindings_container) is called on the next unit
BeginUnit ==
  /\ phase = "idle"
  /\ unit < MaxUnits
  /\ unit' = unit + 1
  /\ phase' = "classes"
  /\ last' = [op |-> "generate_binding_code"]
  /\ UNCHANGED <<container, origin, report, nsTrees, seen, processed, nsStack>>
  /\ UNCHANGED depVars

\* The effect of a generate_class call that came to r; an exception ends the run
GenerateClassEffect(cls, cls_config, r) ==
  /\ container' = r.container
  /\ report' = r.report
  /\ origin' = origin \o [i \in 1..(Len(r.container) - Len(container)) |-> unit]
  /\ phase' = IF r.outcome = "fatal" THEN "failed" ELSE "classes"
  /\ last' = [op |-> "generate_class", cls |-> cls, cls_config |-> cls_config,
              outcome |-> r.outcome, before |-> container]

\* parse_data: the next class of the unit goes through generate_class
GenerateClass ==
  /\ phase = "classes"
  /\ \E cls \in ClassDecls(nsTrees) :
       /\ cls.name \notin seen
       /\ seen' = seen \cup {cls.name}
       /\ \E cls_config \in Configs(cls) :
            /\ processed' = processed \cup {[unit |-> unit, cls |-> cls,
                                              cls_config |-> cls_config]}
            /\ GenerateClassEffect(cls, cls_config,
                                generate_class(cls, cls_config, container, report))
  /\ UNCHANGED <<unit, nsTrees, nsStack>>
  /\ UNCHANGED depVars

\* parse_data: the classes are done, the unit has no enum, and
\* parse_sub_namespace is called on the root namespace
BeginNamespaces ==
  /\ phase = "classes"
  /\ phase' = "namespaces"
  /\ nsStack' = << [ns |-> nsTrees[unit], prefix |-> <<>>, is_root |-> TRUE] >>
  /\ last' = [op |-> "parse_data"]
  /\ UNCHANGED <<container, origin, report, unit, nsTrees, seen, processed>>
  /\ UNCHANGED depVars

\* One call of parse_sub_namespace runs its body; its recursive calls are
\* pushed, the first one on top
ParseSubNamespace ==
  /\ phase = "namespaces"
  /\ nsStack # <<>>
  /\ LET frame == Head(nsStack)
     IN IF ns_skipped(frame)
        THEN /\ nsStack' = Tail(nsStack)
             /\ last' = [op |-> "parse_sub_namespace", frame |-> frame,
                         skipped |-> TRUE, before |-> container]
             /\ UNCHANGED <<container, origin, report>>
        ELSE /\ report' = report \o namespace_rejections(frame)
             /\ container' = add_bindings(container, namespace_bindings(frame))
             /\ origin' = Append(origin, unit)
             /\ nsStack' = sub_calls(frame) \o Tail(nsStack)
             /\ last' = [op |-> "parse_sub_namespace", frame |-> frame,
                         skipped |-> FALSE, before |-> container]
  /\ UNCHANGED <<unit, phase, nsTrees, seen, processed>>
  /\ UNCHANGED depVars

\* generate_binding_code returns
EndUnit ==
  /\ phase = "namespaces"
  /\ nsStack = <<>>
  /\ phase' = "idle"
  /\ last' = [op |-> "return"]
  /\ UNCHANGED <<container, origin, report, unit, nsTrees, seen, processed, nsStack>>
  /\ UNCHANGED depVars

Next == BeginUnit \/ GenerateClass \/ BeginNamespaces \/ ParseSubNamespace \/ EndUnit

Spec == Init /\ [][Next]_vars

(***************************************************************************)
(* The dependency walk: HeaderFile.__init__, preprocess and                *)
(* get_header_dependencies.                                                *)
(*   header: [name, classes, contains, depends, preprocessed]              *)
(*   class of a header: [name, bases], names as token sequences            *)
(*   activation record: [self, pc ("entry" | "loop"), i, header_deps]      *)
(* A header is identified by its position in the list.                     *)
(***************************************************************************)
HeaderName(h) == <<"h", h>>
ClassName(h) == <<"vp", h>>

\* A class outside the library's naming scheme, declared by the last header
HelperName == <<"cv", "Helper">>

\* A second class of the library, declared by the first header
LocalName == <<"vp", 0>>

\* HeaderFile.__init__: contains and depends start empty
HeaderFile(name, classes) ==
  [name |-> name, classes |-> classes, contains |-> <<>>, depends |-> <<>>,
   preprocessed |-> FALSE]

\* The base lists of the class of header h: classes of the other headers, and
\* for the first header the helper class or the second class of the header
BaseLists(h) ==
  { Pick([i \in 1..NumHeaders |-> ClassName(i)], S) \o extra :
      S \in SUBSET ((1..NumHeaders) \ {h}),
      extra \in IF h = 1 THEN {<<>>, <<HelperName>>, <<LocalName>>} ELSE {<<>>} }

HeaderLists ==
  { [h \in 1..NumHeaders |->
       HeaderFile(HeaderName(h),
                  << [name |-> ClassName(h), bases |-> bases[h]] >>
                  \o (IF h = 1 THEN << [name |-> LocalName, bases |-> <<>>] >> ELSE <<>>)
                  \o IF h = NumHeaders THEN << [name |-> HelperName, bases |-> <<>>] >>
                     ELSE <<>>)] :
      bases \in {b \in [1..NumHeaders -> UNION {BaseLists(h) : h \in 1..NumHeaders}] :
                   \A h \in 1..NumHeaders : b[h] \in BaseLists(h)} }

\* The configured additional dependencies: none, or one header forced on another
DepConfigs ==
  { <<>> } \cup { (HeaderName(a) :> << HeaderName(b) >>) :
                    a \in {1}, b \in (1..NumHeaders) \ {1} }

InitDeps ==
  /\ headers \in HeaderLists
  /\ depConfig \in DepConfigs
  /\ callStack = <<>>
  /\ depStatus = "idle"
  /\ depResult = [self |-> 0, value |-> <<>>]
  /\ container = <<>>
  /\ origin = <<>>
  /\ report = <<>>
  /\ unit = 0
  /\ phase = "idle"
  /\ nsTrees = <<>>
  /\ seen = {}
  /\ processed = {}
  /\ nsStack = <<>>
  /\ last = [op |-> "none"]

\* base_class_str_no_template.startswith('vp')
startswith_vp(name) == name # <<>> /\ Head(name) = "vp"

\* preprocess: the names of the classes, and of their bases that start with 'vp'
contains_of(classes) == MapSeq(classes, LAMBDA cls : cls.name)

depends_of(classes) ==
  Concat(MapSeq(classes, LAMBDA cls : SelectSeq(cls.bases, startswith_vp)))

Preprocess(h) ==
  /\ depStatus = "idle"
  /\ ~headers[h].preprocessed
  /\ headers' = [headers EXCEPT ![h] =
                   [@ EXCEPT !.contains = @ \o contains_of(headers[h].classes),
                             !.depends = @ \o depends_of(headers[h].classes),
                             !.preprocessed = TRUE]]
  /\ UNCHANGED <<depConfig, callStack, depStatus, depResult>>
  /\ UNCHANGED genVars

\* user_required_headers
user_required_headers(self) ==
  IF headers[self].name \in DOMAIN depConfig THEN depConfig[headers[self].name] ELSE <<>>

\* is_dependency, for the header at position i seen from self
is_dependency(self, i) ==
  \/ headers[i].name \in Range(user_required_headers(self))
  \/ \E d \in Range(headers[self].depends) : d \in Range(headers[i].contains)

Activation(self) == [self |-> self, pc |-> "entry", i |-> 1, header_deps |-> <<>>]

\* The caller asks for the dependencies of header a
CallGetHeaderDependencies(a) ==
  /\ depStatus = "idle"
  /\ \A h \in 1..NumHeaders : headers[h].preprocessed
  /\ callStack' = << Activation(a) >>
  /\ depStatus' = "running"
  /\ depResult' = [self |-> a, value |-> <<>>]
  /\ UNCHANGED <<headers, depConfig>>
  /\ UNCHANGED genVars

\* A return whose value the calling activation does not add to its header_deps
ReturnToDropping(result) ==
  IF Len(callStack) = 1
  THEN /\ callStack' = <<>>
       /\ depStatus' = "done"
       /\ depResult' = [depResult EXCEPT !.value = result]
  ELSE /\ callStack' = << [callStack[2] EXCEPT !.i = @ + 1] >>
                       \o SubSeq(callStack, 3, Len(callStack))
       /\ UNCHANGED <<depStatus, depResult>>

\* The value `result` goes back to the caller of the innermost activation
ReturnTo(result) ==
  IF Len(callStack) = 1
  THEN /\ callStack' = <<>>
       /\ depStatus' = "done"
       /\ depResult' = [depResult EXCEPT !.value = result]
  ELSE /\ callStack' = << [callStack[2] EXCEPT !.header_deps = @ \o result, !.i = @ + 1] >>
                       \o SubSeq(callStack, 3, Len(callStack))
       /\ UNCHANGED <<depStatus, depResult>>

\* if len(self.depends) == 0: return []
EarlyReturn ==
  /\ depStatus = "running"
  /\ Head(callStack).pc = "entry"
  /\ Len(headers[Head(callStack).self].depends) = 0
  /\ ReturnTo(<<>>)
  /\ UNCHANGED <<headers, depConfig>>
  /\ UNCHANGED genVars

EnterLoop ==
  /\ depStatus = "running"
  /\ Head(callStack).pc = "entry"
  /\ Len(headers[Head(callStack).self].depends) # 0
  /\ callStack' = << [Head(callStack) EXCEPT !.pc = "loop"] >> \o Tail(callStack)
  /\ UNCHANGED <<headers, depConfig, depStatus, depResult>>
  /\ UNCHANGED genVars

\* One iteration that does not recurse: header == self, or not a dependency
SkipHeader ==
  /\ depStatus = "running"
  /\ LET top == Head(callStack)
     IN /\ top.pc = "loop"
        /\ top.i <= Len(headers)
        /\ top.i = top.self \/ ~is_dependency(top.self, top.i)
        /\ callStack' = << [top EXCEPT !.i = @ + 1] >> \o Tail(callStack)
  /\ UNCHANGED <<headers, depConfig, depStatus, depResult>>
  /\ UNCHANGED genVars

\* One iteration on a dependency: it is appended, and the walk recurses into it
Recurse ==
  /\ depStatus = "running"
  /\ LET top == Head(callStack)
     IN /\ top.pc = "loop"
        /\ top.i <= Len(headers)
        /\ top.i # top.self /\ is_dependency(top.self, top.i)
        /\ Len(callStack) < RecursionLimit
        /\ callStack' = << Activation(top.i),
                           [top EXCEPT !.header_deps = Append(@, top.i)] >>
                        \o Tail(callStack)
  /\ UNCHANGED <<headers, depConfig, depStatus, depResult>>
  /\ UNCHANGED genVars

\* The recursion is deeper than the interpreter allows: the walk dies
RecursionError ==
  /\ depStatus = "running"
  /\ LET top == Head(callStack)
     IN /\ top.pc = "loop"
        /\ top.i <= Len(headers)
        /\ top.i # top.self /\ is_dependency(top.self, top.i)
        /\ Len(callStack) >= RecursionLimit
  /\ callStack' = <<>>
  /\ depStatus' = "overflow"
  /\ UNCHANGED <<headers, depConfig, depResult>>
  /\ UNCHANGED genVars

\* return header_deps
ReturnDeps ==
  /\ depStatus = "running"
  /\ Head(callStack).pc = "loop"
  /\ Head(callStack).i > Len(headers)
  /\ ReturnTo(Head(callStack).header_deps)
  /\ UNCHANGED <<headers, depConfig>>
  /\ UNCHANGED genVars

NextDeps ==
  \/ \E h \in 1..NumHeaders : Preprocess(h)
  \/ \E a \in 1..NumHeaders : CallGetHeaderDependencies(a)
  \/ EarlyReturn
  \/ EnterLoop
  \/ SkipHeader
  \/ Recurse
  \/ RecursionError
  \/ ReturnDeps

SpecDeps == InitDeps /\ [][NextDeps]_vars

(***************************************************************************)
(* Properties of generate_class.  They are stated on the state right after *)
(* a call: last holds the class, its configuration, the outcome and the    *)
(* container before the call.                                              *)
(***************************************************************************)
\* The last operation was a generate_class call that returned normally
Generated == last.op = "generate_class" /\ last.outcome = "ok"

\* The entries the last call added
AddedEntries == {container[i] : i \in (Len(last.before) + 1)..Len(container)}

\* The binding sets, in the container before the call, of the public bases
PublicBaseSets ==
  {B \in Range(last.before) :
     /\ B.kind = "Class"
     /\ \E b \in Range(last.cls.bases) :
          b.access = "public" /\ b.typename.args = <<>> /\ b.typename.name = B.names.cpp_name}

\* The protocol names some operator table gives the token
TableNames(tok) ==
  {p[2] : p \in {q \in Range(supported_const_return_unary_op_map)
                       \cup Range(supported_const_return_binary_op_map)
                       \cup Range(supported_in_place_binary_op_map)
                       \cup Range(supported_nary_op_map) : q[1] = tok}}

\* The keys under which the class declares a method, admitted or not
DeclaredKeys(cls) ==
  {<<m.name>> : m \in {x \in Range(cls.methods) : x.kind = "plain"}}
  \cup {CtorKey : m \in {x \in Range(cls.methods) : x.kind = "ctor"}}
  \cup UNION {{OpKey(n) : n \in TableNames(m.name)} :
                m \in {x \in Range(cls.methods) : x.kind = "op"}}

\* The keys other than the constructor key under which the class has an
\* admitted method or operator bound
DefinedKeys(cls) ==
  {<<m.name>> : m \in {x \in Range(cls.methods) : x.kind = "plain" /\ x.admit}}
  \cup UNION {{OpKey(n) : n \in Range(OperatorKeys(m))} :
                m \in {x \in Range(cls.methods) : x.kind = "op" /\ x.admit}}

\* The base binding M as it stands in the set e of the derived class
Rebound(M, e) == [M EXCEPT !.binding.target = e.names.python_ident]

\* C1 as stated: every binding a public base holds under a key (other than the
\* constructor key) that the derived class declares no method under is held,
\* rebound to the derived target, by the derived set under that key.
C1_ShadowOnUndefinedKeys ==
  Generated =>
    \A e \in AddedEntries, B \in PublicBaseSets :
      \A K \in (DOMAIN B.methods) \ {CtorKey} :
        K \notin DeclaredKeys(last.cls) =>
          /\ K \in DOMAIN e.methods
          /\ \A j \in DOMAIN B.methods[K] : Rebound(B.methods[K][j], e) \in Range(e.methods[K])

\* C1 amended: the bindings a public base holds under a key other than the
\* constructor key are held, rebound to the derived target, by the derived set
\* under that key if the derived class itself has an admitted binding under
\* the key, and otherwise nothing of the base is appended under the key.
C1_ShadowOnDefinedKeysOnly ==
  Generated =>
    \A e \in AddedEntries, B \in PublicBaseSets :
      \A K \in (DOMAIN B.methods) \ {CtorKey} :
        IF K \in DefinedKeys(last.cls)
        THEN /\ K \in DOMAIN e.methods
             /\ \A j \in DOMAIN B.methods[K] :
                  Rebound(B.methods[K][j], e) \in Range(e.methods[K])
        ELSE K \in DOMAIN e.methods =>
               \A j \in DOMAIN e.methods[K] :
                 e.methods[K][j].binding.owner # B.names.cpp_name

\* A derived class with an own binding under a key its public base, already in
\* the container, holds a binding under
C1_Witness ==
  /\ Generated
  /\ \E e \in AddedEntries, B \in PublicBaseSets :
       \E K \in (DOMAIN B.methods) \ {CtorKey} :
         /\ K \in DefinedKeys(last.cls)
         /\ Len(e.methods[K]) >= 2

\* The class has an admitted static method and an admitted instance method of
\* the same python name
StaticInstanceConflict(cls) ==
  \E i, j \in DOMAIN cls.methods :
    /\ cls.methods[i].kind = "plain" /\ cls.methods[j].kind = "plain"
    /\ cls.methods[i].admit /\ cls.methods[j].admit
    /\ cls.methods[i].name = cls.methods[j].name
    /\ cls.methods[i].static /\ ~cls.methods[j].static

\* The class is generated: not ignored, and with a specialization if a template
IsGeneratedClass(cls, cls_config) ==
  ~cls_config.ignored /\ (cls.template = <<>> \/ cls_config.specializations # <<>>)

\* C2: generate_class on a generated class whose admitted methods claim one
\* binding key both with a static and with an instance method raises a fatal
\* error, and the container holds no entry of the class, for no specialization.
C2_StaticInstanceConflictIsFatal ==
  (/\ last.op = "generate_class"
   /\ IsGeneratedClass(last.cls, last.cls_config)
   /\ StaticInstanceConflict(last.cls))
  => /\ last.outcome = "fatal"
     /\ phase = "failed"
     /\ container = last.before
     /\ \A i \in DOMAIN container : container[i].names.cpp_no_template_name # last.cls.name

\* A template class with two specializations and the conflict was given to
\* generate_class
C2_Witness ==
  /\ last.op = "generate_class"
  /\ StaticInstanceConflict(last.cls)
  /\ Len(last.cls_config.specializations) = 2
  /\ last.outcome = "fatal"

\* The class cannot be instantiated
NonInstantiable(cls, cls_config) ==
  (\E m \in Range(cls.methods) : m.pure_virtual) \/ cls_config.is_virtual

\* The set e holds a binding of the class's own method at position i under K
HoldsOwn(e, K, i) ==
  /\ K \in DOMAIN e.methods
  /\ \E j \in DOMAIN e.methods[K] :
       /\ e.methods[K][j].binding.ix = i
       /\ e.methods[K][j].binding.owner = e.names.cpp_name
       /\ e.methods[K][j].binding.target = e.names.python_ident

\* The field is public, not of a pointer or reference type, and not listed in
\* ignored_attributes
EligibleField(f, cls_config) ==
  /\ f.access = "public"
  /\ f.name \notin cls_config.ignored_attributes
  /\ "*" \notin Range(f.type.tokens) /\ "&" \notin Range(f.type.tokens)

\* The name the field is bound under: its name without the leading characters
\* 'm' and '_'
PythonFieldName(f) == lstrip(f.name, {"m", "_"})

\* C3: the binding set of a class with a pure virtual method, or configured
\* is_virtual, has no binding under the constructor key and no constructor
\* binding at all, and still has a binding for every admitted method, for every
\* admitted operator the tables know, and a field binding under the python
\* name of every public, non-pointer, non-ignored field.
C3_NoConstructorForVirtual ==
  (Generated /\ NonInstantiable(last.cls, last.cls_config)) =>
    \A e \in AddedEntries :
      /\ CtorKey \notin DOMAIN e.methods
      /\ \A K \in DOMAIN e.methods : \A j \in DOMAIN e.methods[K] :
           ~e.methods[K][j].is_constructor
      /\ \A i \in DOMAIN last.cls.methods :
           LET m == last.cls.methods[i]
           IN /\ (m.kind = "plain" /\ m.admit) => HoldsOwn(e, <<m.name>>, i)
              /\ (m.kind = "op" /\ m.admit) =>
                   \A n \in Range(OperatorKeys(m)) : HoldsOwn(e, OpKey(n), i)
      /\ \A f \in Range(last.cls.fields) :
           EligibleField(f, last.cls_config) =>
             /\ PythonFieldName(f) \in DOMAIN e.fields
             /\ e.fields[PythonFieldName(f)].target = e.names.python_ident

\* A class with an admitted constructor and a pure virtual method, derived
\* from a base that holds a constructor binding, got its binding set
C3_Witness ==
  /\ Generated
  /\ \E m \in Range(last.cls.methods) : m.pure_virtual
  /\ \E m \in Range(last.cls.methods) : m.kind = "ctor" /\ m.admit
  /\ \E B \in PublicBaseSets : CtorKey \in DOMAIN B.methods
  /\ AddedEntries # {}

\* The last call was on a template class that is not ignored, with at least one
\* specialization, each with as many arguments as the template has parameters
SpecializedTemplate ==
  /\ last.op = "generate_class"
  /\ last.cls.template # <<>>
  /\ ~last.cls_config.ignored
  /\ last.cls_config.specializations # <<>>
  /\ \A i \in DOMAIN last.cls_config.specializations :
       Len(last.cls_config.specializations[i].arguments) = Len(last.cls.template)

\* The type name with every formal parameter of the class replaced by the
\* argument of the specialization s at the same position
Instantiated(typename, s) ==
  typename.name \o
  [k \in DOMAIN typename.args |->
     IF \E t \in DOMAIN last.cls.template : last.cls.template[t] = typename.args[k]
     THEN s.arguments[CHOOSE t \in DOMAIN last.cls.template :
                        last.cls.template[t] = typename.args[k]]
     ELSE typename.args[k]]

\* The call added exactly one class entry per specialization, in list order,
\* named after the specialization and built on its arguments
OnePerSpecialization ==
  /\ Len(container) = Len(last.before) + Len(last.cls_config.specializations)
  /\ SubSeq(container, 1, Len(last.before)) = last.before
  /\ \A i \in DOMAIN last.cls_config.specializations :
       LET e == container[Len(last.before) + i]
           s == last.cls_config.specializations[i]
       IN /\ e.kind = "Class"
          /\ e.names.python_name = s.python_name
          /\ e.names.cpp_no_template_name = last.cls.name
          /\ e.names.cpp_name = last.cls.name \o s.arguments
          /\ e.decl.py_class_template =
               << last.cls.name \o s.arguments >>
               \o [k \in 1..Cardinality({b \in DOMAIN last.cls.bases :
                                           last.cls.bases[b].access = "public"}) |->
                     Instantiated(SelectSeq(last.cls.bases,
                                            LAMBDA b : b.access = "public")[k].typename, s)]
          /\ \A K \in DOMAIN e.methods : \A j \in DOMAIN e.methods[K] :
               e.methods[K][j].binding.target = <<"py">> \o s.python_name

OwnBindingsOf(e, i) ==
  UNION {{<<K, j>> : j \in {x \in DOMAIN e.methods[K] :
                              /\ e.methods[K][x].binding.ix = i
                              /\ e.methods[K][x].binding.owner = e.names.cpp_name}} :
           K \in DOMAIN e.methods}

\* The keys a table gives the token
KeysIn(table, tok) == {OpKey(p[2]) : p \in {q \in Range(table) : q[1] = tok}}

\* The key of the first sub-table, in the order the parameter count fixes, that
\* knows the token
FirstMatchKeys(m) ==
  IF m.nparams = 0 THEN KeysIn(supported_const_return_unary_op_map, m.name)
  ELSE IF m.nparams = 1
  THEN IF KeysIn(supported_const_return_binary_op_map, m.name) # {}
       THEN KeysIn(supported_const_return_binary_op_map, m.name)
       ELSE KeysIn(supported_in_place_binary_op_map, m.name)
  ELSE KeysIn(supported_nary_op_map, m.name)

RECURSIVE DeclaredFunctions(_, _)
DeclaredFunctions(ns, path) ==
  {[fn |-> f.name, admit |-> f.admit, path |-> path] : f \in Range(ns.functions)}
  \cup UNION {DeclaredFunctions(sub, Append(path, sub.name)) : sub \in Range(ns.namespaces)}

\* 'n1::n2::...::nk::'
PrefixOf(path) == Concat([k \in DOMAIN path |-> <<path[k], "::">>])

\* The unit u went through generate_binding_code to the end
UnitDone(u) == u < unit \/ (u = unit /\ phase = "idle")

\* The function f of unit u is bound, under the target of its namespace
BoundIn(u, f) ==
  \E i \in DOMAIN container :
    /\ origin[i] = u
    /\ container[i].kind = "Namespace"
    /\ container[i].names.cpp_name = PrefixOf(f.path)
    /\ \E d \in Range(container[i].defs) :
         d.fn = f.fn /\ d.target.cpp_name = PrefixOf(f.path)

\* C6: a function is bound only if it is admitted, no namespace on its path is
\* anonymous, and the target is the prefix 'n1::...::nk::' of its path; and
\* once the unit is done every such function is bound.
C6_NamespaceWalk ==
  /\ \A i \in DOMAIN container :
       container[i].kind = "Namespace" =>
         \A d \in Range(container[i].defs) :
           \E f \in DeclaredFunctions(nsTrees[origin[i]], <<>>) :
             /\ f.fn = d.fn
             /\ f.admit
             /\ "" \notin Range(f.path)
             /\ container[i].names.cpp_name = PrefixOf(f.path)
             /\ d.target.cpp_name = PrefixOf(f.path)
  /\ \A u \in DOMAIN nsTrees :
       UnitDone(u) =>
         \A f \in DeclaredFunctions(nsTrees[u], <<>>) :
           (f.admit /\ "" \notin Range(f.path)) => BoundIn(u, f)

\* A unit is done that has a function in an anonymous namespace, a function in
\* a namespace below an anonymous one, and a function two named levels deep,
\* which is bound
C6_Witness ==
  \E u \in DOMAIN nsTrees :
    /\ UnitDone(u)
    /\ \E f \in DeclaredFunctions(nsTrees[u], <<>>) :
         Len(f.path) = 2 /\ f.path[1] = "" /\ f.path[2] # ""
    /\ \E f \in DeclaredFunctions(nsTrees[u], <<>>) :
         Len(f.path) = 2 /\ f.path[1] # "" /\ f.path[2] = ""
    /\ \E f \in DeclaredFunctions(nsTrees[u], <<>>) :
         Len(f.path) = 2 /\ "" \notin Range(f.path) /\ BoundIn(u, f)

\* C9 as stated: no qualified name was passed to add_bindings twice.
C9_QualifiedNamesUnique ==
  \A i, j \in DOMAIN container :
    i # j => container[i].names.cpp_name # container[j].names.cpp_name

\* C9 amended: two entries of the same qualified name are namespace entries
\* added by different units; no class or specialization name was passed twice,
\* and no unit passed a namespace name twice.
C9_NamesUniqueButNamespacesAcrossUnits ==
  \A i, j \in DOMAIN container :
    (i # j /\ container[i].names.cpp_name = container[j].names.cpp_name) =>
      /\ container[i].kind = "Namespace" /\ container[j].kind = "Namespace"
      /\ origin[i] # origin[j]

\* Two units are done, the container holds the entries of two specializations
\* and of a namespace below the root
C9_Witness ==
  /\ UnitDone(2)
  /\ \E i, j \in DOMAIN container :
       /\ i # j
       /\ container[i].kind = "Class" /\ container[j].kind = "Class"
       /\ container[i].names.cpp_no_template_name = container[j].names.cpp_no_template_name
  /\ \E i, j \in DOMAIN container :
       /\ i # j
       /\ container[i].names.cpp_name = container[j].names.cpp_name

\* C10: a step never removes or changes an entry of the container: the
\* container before the step is a prefix of the container after it.
C10_ContainerAppendOnly ==
  [][/\ Len(container') >= Len(container)
     /\ SubSeq(container', 1, Len(container)) = container]_vars

\* A derived class took over bindings of its base, whose entry is in the
\* container as it was
C10_Witness ==
  /\ Generated
  /\ \E e \in AddedEntries, B \in PublicBaseSets :
       \E K \in (DOMAIN e.methods) \cap (DOMAIN B.methods) :
         \E j \in DOMAIN B.methods[K] : Rebound(B.methods[K][j], e) \in Range(e.methods[K])
  /\ SubSeq(container, 1, Len(last.before)) = last.before

(***************************************************************************)
(* Properties of get_header_dependencies.                                  *)
(***************************************************************************)
\* A class of header b is among the dependency names of header a
DerivesFrom(a, b) ==
  \E d \in Range(headers[a].depends) : d \in Range(headers[b].contains)

\* header_additional_dependencies names header b for header a
ForcedOn(a, b) == headers[b].name \in Range(user_required_headers(a))

\* C7: when the call for header A returned, every other header B is in the
\* result if a class of B is among A's dependency names, and also if the
\* configuration names B for A, A's dependency names being empty or not.
C7_DirectDependencies ==
  depStatus = "done" =>
    \A b \in (1..NumHeaders) \ {depResult.self} :
      (DerivesFrom(depResult.self, b) \/ ForcedOn(depResult.self, b)) =>
        b \in Range(depResult.value)

\* C8: the walk is guarded: it never holds more activations than there are
\* headers, and it never dies of the depth of its recursion.
C8_WalkIsGuarded ==
  /\ Len(callStack) <= NumHeaders
  /\ depStatus # "overflow"

(***************************************************************************)
(* Properties of the diagnostics and of the field bindings.                *)
(***************************************************************************)
\* The type of the field holds '&' or '*'
PointerOrRef(f) == "&" \in Range(f.type.tokens) \/ "*" \in Range(f.type.tokens)

\* The positions in the report of the pointer-or-reference diagnostics of the class
Diagnostics(cls) ==
  {i \in DOMAIN report :
     report[i].what = "pointer_or_ref_holder" /\ report[i].owner = cls.name}

\* C11 as stated: after generate_class on a class that is not ignored, the
\* report holds a pointer-or-reference diagnostic of the class if and only if
\* the class has a pointer- or reference-typed field whose name is not listed
\* in acknowledge_pointer_or_ref_fields.
C11_DiagnosticIffUnacknowledgedName ==
  (last.op = "generate_class" /\ ~last.cls_config.ignored) =>
    (Diagnostics(last.cls) # {}
     <=> \E f \in Range(last.cls.fields) :
           PointerOrRef(f) /\ f.name \notin last.cls_config.acknowledge)

\* C11 amended: after generate_class on a class that is not ignored, the report
\* holds a pointer-or-reference diagnostic of the class if and only if the
\* class has a field, public or not, whose type string holds '&' or '*' and is
\* not listed in acknowledge_pointer_or_ref_fields; the diagnostic is single
\* and lists the type strings of all such fields; an ignored class gets none.
C11_DiagnosticIffUnacknowledgedType ==
  last.op = "generate_class" =>
    IF last.cls_config.ignored THEN Diagnostics(last.cls) = {}
    ELSE /\ Diagnostics(last.cls) # {}
            <=> \E f \in Range(last.cls.fields) :
                  PointerOrRef(f) /\ f.type.tokens \notin last.cls_config.acknowledge
         /\ Cardinality(Diagnostics(last.cls)) <= 1
         /\ \A i \in Diagnostics(last.cls) :
              Range(report[i].fields) =
                {f.type.tokens : f \in {g \in Range(last.cls.fields) : PointerOrRef(g)}}

\* A class with a pointer field and a reference field, the type of the first
\* one acknowledged, got its diagnostic; its binding set is in the container
C11_Witness ==
  /\ Generated
  /\ last.cls_config.acknowledge = {<<"int", "*">>}
  /\ \E f \in Range(last.cls.fields) : f.type.tokens = <<"int", "*">>
  /\ \E f \in Range(last.cls.fields) : f.type.tokens = <<"double", "&">>
  /\ Diagnostics(last.cls) # {}

\* C12: the field mapping of a generated class holds exactly one binding per
\* public field that is not pointer- or reference-typed and not listed in
\* ignored_attributes, as many bindings as there are such fields and none for
\* another field; the binding is read-only iff the field type is const, and
\* static iff the field is static.
C12_FieldBindings ==
  Generated =>
    \A e \in AddedEntries :
      /\ Cardinality(DOMAIN e.fields) =
           Cardinality({i \in DOMAIN last.cls.fields :
                          EligibleField(last.cls.fields[i], last.cls_config)})
      /\ \A i \in DOMAIN last.cls.fields :
           LET f == last.cls.fields[i]
           IN EligibleField(f, last.cls_config) =>
                Cardinality({k \in DOMAIN e.fields :
                               /\ e.fields[k].member = <<e.names.cpp_name, f.name>>
                               /\ (e.fields[k].def = "readonly") = f.type.const
                               /\ e.fields[k].static = f.static}) = 1
      /\ \A k \in DOMAIN e.fields :
           \E f \in Range(last.cls.fields) :
             /\ EligibleField(f, last.cls_config)
             /\ e.fields[k].member = <<e.names.cpp_name, f.name>>

\* The container holds a binding set of the class
ClassBound(cls) ==
  \E i \in DOMAIN container :
    container[i].kind = "Class" /\ container[i].names.cpp_no_template_name = cls.name

\* Some binding set of the class holds a binding of its method at position i
MethodBound(cls, i) ==
  \E k \in DOMAIN container :
    /\ container[k].kind = "Class"
    /\ container[k].names.cpp_no_template_name = cls.name
    /\ \E K \in DOMAIN container[k].methods : \E j \in DOMAIN container[k].methods[K] :
         /\ container[k].methods[K][j].binding.ix = i
         /\ container[k].methods[K][j].binding.owner = container[k].names.cpp_name

\* The report holds an entry of the class
ClassReported(cls) ==
  \E r \in DOMAIN report : report[r].what = "class" /\ report[r].owner = cls.name

\* The report holds an entry of the method at position i of the class
MethodReported(cls, i) ==
  \E r \in DOMAIN report :
    report[r].what = "method" /\ report[r].owner = cls.name /\ report[r].ix = i

\* The report holds an entry of the function
FunctionReported(f) ==
  \E r \in DOMAIN report :
    report[r].what = "function" /\ report[r].owner = PrefixOf(f.path) /\ report[r].fn = f.fn

\* C13: once generate_binding_code is done with a unit, every class of the
\* unit without a binding set is in the report, every method or operator of a
\* class of the unit without a binding is in the report, itself or through its
\* class, and every function of a namespace the walk visits that is not bound
\* is in the report.
C13_AuditableOmissions ==
  \A u \in DOMAIN nsTrees :
    UnitDone(u) =>
      /\ \A p \in processed :
           p.unit = u =>
             /\ ~ClassBound(p.cls) => ClassReported(p.cls)
             /\ \A i \in DOMAIN p.cls.methods :
                  ~MethodBound(p.cls, i) => (MethodReported(p.cls, i) \/ ClassReported(p.cls))
      /\ \A f \in DeclaredFunctions(nsTrees[u], <<>>) :
           ("" \notin Range(f.path) /\ ~BoundIn(u, f)) => FunctionReported(f)

\* C14: in every binding set of a class in the container, no key's list holds
\* both a static method binding and an instance method binding, the bindings
\* taken over from the bases counted.
C14_NoStaticInstanceMix ==
  \A k \in DOMAIN container :
    container[k].kind = "Class" =>
      \A K \in DOMAIN container[k].methods :
        ~ \E i, j \in DOMAIN container[k].methods[K] :
            /\ container[k].methods[K][i].is_static
            /\ ~container[k].methods[K][j].is_static

\* The binding sets, in the container before the call, of the public bases
\* without template arguments, in the order of the bases
PublicBaseSeq ==
  LET named == SelectSeq(last.cls.bases, LAMBDA b :
                 /\ b.access = "public" /\ b.typename.args = <<>>
                 /\ \E i \in DOMAIN last.before :
                      last.before[i].names.cpp_name = b.typename.name)
  IN [k \in DOMAIN named |->
        last.before[CHOOSE i \in DOMAIN last.before :
                      /\ last.before[i].names.cpp_name = named[k].typename.name
                      /\ \A j \in 1..(i - 1) :
                           last.before[j].names.cpp_name # named[k].typename.name]]

\* The bindings the bases hold under K, rebound to the set e, base after base
BasePart(K, e) ==
  Concat([k \in DOMAIN PublicBaseSeq |->
            IF K \in DOMAIN PublicBaseSeq[k].methods
            THEN [j \in DOMAIN PublicBaseSeq[k].methods[K] |->
                    Rebound(PublicBaseSeq[k].methods[K][j], e)]
            ELSE <<>>])

\* The number of bindings the class's own admitted methods make under K
OwnCount(cls, K) ==
  LET Weight(m) == IF m.kind = "plain" /\ m.admit /\ <<m.name>> = K
                   THEN (IF m.mspecs = <<>> THEN 1 ELSE Len(m.mspecs))
                   ELSE IF m.kind = "op" /\ m.admit /\ K \in {OpKey(n) : n \in Range(OperatorKeys(m))}
                   THEN 1 ELSE 0
      Sum[i \in 0..Len(cls.methods)] ==
        IF i = 0 THEN 0 ELSE Sum[i - 1] + Weight(cls.methods[i])
  IN Sum[Len(cls.methods)]

\* C15: under every key other than the constructor key that the derived class
\* defines by an own method or operator, the list of the derived set is the
\* class's own bindings, in declaration order, followed by the bindings the
\* public bases found in the container hold under the key, rebound to the
\* derived target; under the constructor key the set holds own bindings only.
C15_ShadowOnShadowedKeys ==
  Generated =>
    \A e \in AddedEntries :
      /\ \A K \in DefinedKeys(last.cls) :
           /\ K \in DOMAIN e.methods
           /\ LET L == e.methods[K]
                  n == OwnCount(last.cls, K)
              IN /\ Len(L) = n + Len(BasePart(K, e))
                 /\ \A j \in 1..n :
                      /\ L[j].binding.owner = e.names.cpp_name
                      /\ L[j].binding.target = e.names.python_ident
                 /\ \A i, j \in 1..n : i < j => L[i].binding.ix <= L[j].binding.ix
                 /\ \A i \in DOMAIN last.cls.methods :
                      (\E j \in DOMAIN L : L[j].binding.ix = i /\ L[j].binding.owner = e.names.cpp_name)
                      => \E j \in 1..n : L[j].binding.ix = i
                 /\ SubSeq(L, n + 1, Len(L)) = BasePart(K, e)
      /\ CtorKey \in DOMAIN e.methods =>
           \A j \in DOMAIN e.methods[CtorKey] :
             /\ e.methods[CtorKey][j].is_constructor
             /\ e.methods[CtorKey][j].binding.owner = e.names.cpp_name

\* A derived class with an own constructor and an own operator+ was generated
\* on a public base that holds a binding under __add__
C15_Witness ==
  /\ Generated
  /\ PublicBaseSeq # <<>>
  /\ \E e \in AddedEntries :
       /\ CtorKey \in DOMAIN e.methods
       /\ OpKey("add") \in DefinedKeys(last.cls)
       /\ BasePart(OpKey("add"), e) # <<>>
       /\ Len(e.methods[OpKey("add")]) = 2

\* The headers reached from the headers in S by at most n steps from a header
\* to another header that declares one of its recorded bases
RECURSIVE ReachedFrom(_, _)
ReachedFrom(S, n) ==
  IF n = 0 THEN S
  ELSE ReachedFrom(S \cup {b \in 1..NumHeaders :
                             \E a \in S : a # b /\ DerivesFrom(a, b)}, n - 1)

\* The headers reached from a by one or more steps
Reachable(a) ==
  ReachedFrom({b \in 1..NumHeaders : a # b /\ DerivesFrom(a, b)}, NumHeaders)

\* No header reaches itself
Acyclic == \A a \in 1..NumHeaders : a \notin Reachable(a)

\* C16: when no header reaches itself and the configuration forces no
\* dependency, the headers a returned call of get_header_dependencies lists
\* are the headers reachable from its header by one or more direct-dependency
\* steps, and its header is not among them.
C16_DependencyClosure ==
  (depStatus = "done" /\ Acyclic /\ depConfig = <<>>) =>
    /\ Range(depResult.value) = Reachable(depResult.self)
    /\ depResult.self \notin Range(depResult.value)

\* A call returned on a header that derives from a class of its own and has
\* a dependency reached in two steps only
C16_Witness ==
  /\ depStatus = "done" /\ Acyclic /\ depConfig = <<>>
  /\ DerivesFrom(depResult.self, depResult.self)
  /\ \E b \in Reachable(depResult.self) : ~DerivesFrom(depResult.self, b)
  /\ Range(depResult.value) = Reachable(depResult.self)

====
